---- MODULE Spec2Model ----
(***************************************************************************)
(* CodeMate: the rule-based analyser (codeAnalyzer.ts) and the App state   *)
(* that drives it (App.tsx, CodeEditor.tsx).                               *)
(*                                                                         *)
(* A source text is a sequence of one-character strings.  Offsets are the  *)
(* 0-based offsets of JavaScript: the character at offset p of text t is   *)
(* t[p + 1].                                                               *)
(***************************************************************************)
EXTENDS Integers, Sequences, FiniteSets, TLC

VARIABLES code, language, result, isAnalyzing, pending, analyzed, exported

vars == <<code, language, result, isAnalyzing, pending, analyzed, exported>>

(***************************************************************************)
(* Characters and the string primitives of JavaScript that the analyser    *)
(* uses.                                                                   *)
(***************************************************************************)
Lower == {"a", "b", "c", "d", "e", "f", "g", "h", "i", "j", "k", "l", "m",
          "n", "o", "p", "q", "r", "s", "t", "u", "v", "w", "x", "y", "z"}

Upper == {"A", "B", "C", "D", "E", "F", "G", "H", "I", "J", "K", "L", "M",
          "N", "O", "P", "Q", "R", "S", "T", "U", "V", "W", "X", "Y", "Z"}

\* U+000B, U+00A0, U+1680 and U+FEFF, written as the characters they are.
VerticalTab == ""

NoBreakSpace == " "

OghamSpaceMark == " "

ByteOrderMark == "﻿"

\* The characters \s matches and trim() strips, among those a string of the
\* model can hold: \s and trim() also take U+2000 to U+200A, U+2028, U+2029,
\* U+202F, U+205F and U+3000, which no string of a module can hold.
WhiteSpace ==
  {" ", "\t", "\n", "\r", "\f",
   VerticalTab, NoBreakSpace, OghamSpaceMark, ByteOrderMark}

Max2(a, b) == IF a >= b THEN a ELSE b

Min2(a, b) == IF a <= b THEN a ELSE b

\* The least and the greatest member of a non-empty set of integers.
SetMin(T) == CHOOSE x \in T : \A y \in T : x <= y

SetMax(T) == CHOOSE x \in T : \A y \in T : x >= y

\* s.substring(0, n)
Prefix(s, n) == SubSeq(s, 1, Min2(n, Len(s)))

\* The offsets of s that hold "\n".
NewlineOffsets(s) == {q \in 0..(Len(s) - 1) : s[q + 1] = "\n"}

\* s.split('\n'): the segments between line breaks; one empty segment for
\* the empty text.
Split(s) ==
  LET nl == NewlineOffsets(s)
      \* the offset of the k-th line break; -1 for k = 0, Len(s) past the last
      Break(k) == IF k = 0 THEN -1
                  ELSE IF k > Cardinality(nl) THEN Len(s)
                  ELSE CHOOSE q \in nl : Cardinality({x \in nl : x < q}) = k - 1
  IN [k \in 1..(Cardinality(nl) + 1) |-> SubSeq(s, Break(k - 1) + 2, Break(k))]

\* s.trim()
RECURSIVE TrimStart(_)
TrimStart(s) ==
  IF s # <<>> /\ Head(s) \in WhiteSpace THEN TrimStart(Tail(s)) ELSE s

RECURSIVE TrimEnd(_)
TrimEnd(s) ==
  IF s # <<>> /\ s[Len(s)] \in WhiteSpace
  THEN TrimEnd(SubSeq(s, 1, Len(s) - 1)) ELSE s

Trim(s) == TrimEnd(TrimStart(s))

\* s.startsWith(p)
StartsWith(s, p) == Len(s) >= Len(p) /\ SubSeq(s, 1, Len(p)) = p

\* s.lastIndexOf('\n', from): the greatest offset <= from holding "\n", or -1.
LastIndexOfNewline(s, from) ==
  LET found == {q \in NewlineOffsets(s) : q <= from}
  IN IF found = {} THEN -1 ELSE SetMax(found)

(***************************************************************************)
(* Regular expressions.  A pattern is a sequence of alternatives (a|b|c),  *)
(* an alternative is a sequence of items, and an item is one character     *)
(* class with a greedy quantifier: exactly one, + (min 1, many) or         *)
(* * (min 0, many).  A negated class [^...] has neg = TRUE.                *)
(***************************************************************************)
Ch(c) == [cls |-> {c}, neg |-> FALSE, min |-> 1, many |-> FALSE]

One(set) == [cls |-> set, neg |-> FALSE, min |-> 1, many |-> FALSE]

Plus(set) == [cls |-> set, neg |-> FALSE, min |-> 1, many |-> TRUE]

Star(set) == [cls |-> set, neg |-> FALSE, min |-> 0, many |-> TRUE]

NotPlus(set) == [cls |-> set, neg |-> TRUE, min |-> 1, many |-> TRUE]

NotStar(set) == [cls |-> set, neg |-> TRUE, min |-> 0, many |-> TRUE]

Lit(s) == [i \in 1..Len(s) |-> Ch(s[i])]

InClass(item, c) == IF item.neg THEN c \notin item.cls ELSE c \in item.cls

\* The length of the run that starts at pos and stops before the first of
\* the offsets stops, or at the end of a text of length len.
RunTo(stops, pos, len) == (IF stops = {} THEN len ELSE SetMin(stops)) - pos

\* The number of characters from offset pos on that the item can take: the
\* longest run of characters of its class, one at most unless it is + or *.
RunLength(item, text, pos) ==
  IF pos >= Len(text) \/ ~InClass(item, text[pos + 1]) THEN 0
  ELSE IF ~item.many THEN 1
  ELSE RunTo({q \in pos..(Len(text) - 1) : ~InClass(item, text[q + 1])},
             pos, Len(text))

\* Of the tries <<n, e>> (n characters taken, the rest then ending at e, -1
\* for no match), the end of the one that takes the most and matches.
Longest(good) ==
  IF good = {} THEN -1
  ELSE (CHOOSE t \in good : \A u \in good : t[1] >= u[1])[2]

LongestMatching(tries) == Longest({t \in tries : t[2] # -1})

\* The backtracking matcher: items k.. of alternative alt matched at offset
\* pos, each quantifier taking the most it can and giving back one character
\* at a time until the rest matches.  The end offset of the match, or -1.
RECURSIVE MatchItems(_, _, _, _)
MatchItems(alt, k, text, pos) ==
  IF k > Len(alt) THEN pos
  ELSE IF ~alt[k].many
  THEN IF RunLength(alt[k], text, pos) = 1
       THEN MatchItems(alt, k + 1, text, pos + 1) ELSE -1
  ELSE LongestMatching({<<n, MatchItems(alt, k + 1, text, pos + n)>> :
                          n \in alt[k].min..RunLength(alt[k], text, pos)})

\* e unless it is -1, and then the alternative.
OrElse(e, alternative) == IF e # -1 THEN e ELSE alternative

\* The alternatives are tried in the order written; the first that matches
\* at pos decides the match.
RECURSIVE MatchAlternatives(_, _, _, _)
MatchAlternatives(pattern, a, text, pos) ==
  IF a > Len(pattern) THEN -1
  ELSE OrElse(MatchItems(pattern[a], 1, text, pos),
              MatchAlternatives(pattern, a + 1, text, pos))

MatchAt(pattern, text, pos) == MatchAlternatives(pattern, 1, text, pos)

NoMatch == [index |-> -1, end |-> -1]

\* The match at the least of the offsets starts.
Leftmost(pattern, text, starts) ==
  IF starts = {} THEN NoMatch
  ELSE [index |-> SetMin(starts), end |-> MatchAt(pattern, text, SetMin(starts))]

\* RegExp exec from lastIndex: the leftmost match starting at offset >= from.
Exec(pattern, text, from) ==
  Leftmost(pattern, text,
           {p \in from..Len(text) : MatchAt(pattern, text, p) # -1})

\* pattern.test(text) and text.match(pattern) of a pattern without the g flag.
Test(pattern, text) == Exec(pattern, text, 0).index # -1

Match(pattern, text) == Exec(pattern, text, 0)

\* [...text.matchAll(pattern)] and text.match(pattern) of a pattern with the
\* g flag: every match, each search resuming at the end of the match before
\* (one further after an empty match).
RECURSIVE MatchAllFrom(_, _, _), MatchAllAfter(_, _, _)
MatchAllFrom(pattern, text, from) ==
  MatchAllAfter(pattern, text, Exec(pattern, text, from))

MatchAllAfter(pattern, text, m) ==
  IF m.index = -1 THEN <<>>
  ELSE <<m>> \o MatchAllFrom(pattern, text,
                             IF m.end = m.index THEN m.end + 1 ELSE m.end)

MatchAll(pattern, text) == MatchAllFrom(pattern, text, 0)

(***************************************************************************)
(* The rule catalog.                                                       *)
(***************************************************************************)
S == WhiteSpace

javaRules == <<
  [ \* /class\s+[a-z]/
    pattern |-> << Lit(<<"c", "l", "a", "s", "s">>) \o <<Plus(S), One(Lower)>> >>,
    global |-> FALSE, type |-> "warning",
    message |-> "Class names should start with uppercase letter",
    rule |-> "naming-convention", severity |-> "medium" ],
  [ \* /public\s+static\s+void\s+main\s*\([^)]*\)\s*\{[^}]*\}/
    pattern |-> << Lit(<<"p", "u", "b", "l", "i", "c">>) \o <<Plus(S)>>
                   \o Lit(<<"s", "t", "a", "t", "i", "c">>) \o <<Plus(S)>>
                   \o Lit(<<"v", "o", "i", "d">>) \o <<Plus(S)>>
                   \o Lit(<<"m", "a", "i", "n">>)
                   \o <<Star(S), Ch("("), NotStar({")"}), Ch(")"), Star(S),
                        Ch("{"), NotStar({"}"}), Ch("}")>> >>,
    global |-> FALSE, type |-> "suggestion",
    message |-> "Consider extracting logic from main method into separate methods",
    rule |-> "method-complexity", severity |-> "low" ],
  [ \* /import\s+[^;]+;/g
    pattern |-> << Lit(<<"i", "m", "p", "o", "r", "t">>)
                   \o <<Plus(S), NotPlus({";"}), Ch(";")>> >>,
    global |-> TRUE, type |-> "suggestion",
    message |-> "Remove unused imports to improve code clarity",
    rule |-> "unused-imports", severity |-> "low" ],
  [ \* /for\s*\([^)]*\)\s*\{\s*for\s*\([^)]*\)/
    pattern |-> << Lit(<<"f", "o", "r">>)
                   \o <<Star(S), Ch("("), NotStar({")"}), Ch(")"), Star(S),
                        Ch("{"), Star(S)>>
                   \o Lit(<<"f", "o", "r">>)
                   \o <<Star(S), Ch("("), NotStar({")"}), Ch(")")>> >>,
    global |-> FALSE, type |-> "warning",
    message |-> "Nested loops detected - consider optimization",
    rule |-> "performance", severity |-> "medium" ] >>

pythonRules == <<
  [ \* /def\s+[A-Z]/
    pattern |-> << Lit(<<"d", "e", "f">>) \o <<Plus(S), One(Upper)>> >>,
    global |-> FALSE, type |-> "warning",
    message |-> "Function names should be in snake_case",
    rule |-> "naming-convention", severity |-> "medium" ],
  [ \* /import\s+\*/
    pattern |-> << Lit(<<"i", "m", "p", "o", "r", "t">>) \o <<Plus(S), Ch("*")>> >>,
    global |-> FALSE, type |-> "warning",
    message |-> "Avoid wildcard imports",
    rule |-> "import-style", severity |-> "medium" ],
  [ \* /except:/
    pattern |-> << Lit(<<"e", "x", "c", "e", "p", "t", ":">>) >>,
    global |-> FALSE, type |-> "error",
    message |-> "Bare except clauses should specify exception types",
    rule |-> "exception-handling", severity |-> "high" ] >>

cppRules == <<
  [ \* /#include\s*<[^>]+>/g
    pattern |-> << Lit(<<"#", "i", "n", "c", "l", "u", "d", "e">>)
                   \o <<Star(S), Ch("<"), NotPlus({">"}), Ch(">")>> >>,
    global |-> TRUE, type |-> "suggestion",
    message |-> "Consider using forward declarations to reduce compilation time",
    rule |-> "include-optimization", severity |-> "low" ],
  [ \* /using\s+namespace\s+std;/
    pattern |-> << Lit(<<"u", "s", "i", "n", "g">>) \o <<Plus(S)>>
                   \o Lit(<<"n", "a", "m", "e", "s", "p", "a", "c", "e">>)
                   \o <<Plus(S)>> \o Lit(<<"s", "t", "d", ";">>) >>,
    global |-> FALSE, type |-> "warning",
    message |-> "Avoid \"using namespace std\" in header files",
    rule |-> "namespace-pollution", severity |-> "medium" ],
  [ \* /new\s+/
    pattern |-> << Lit(<<"n", "e", "w">>) \o <<Plus(S)>> >>,
    global |-> FALSE, type |-> "suggestion",
    message |-> "Consider using smart pointers instead of raw pointers",
    rule |-> "memory-management", severity |-> "medium" ] >>

\* RulesFor with a default case that falls back to the Java rules.
RulesForDefaultJava(lang) ==
  CASE lang = "python" -> pythonRules
    [] lang = "cpp" -> cppRules
    [] OTHER -> javaRules

\* The switch on the language id: no rule for an id that is none of the three.
RulesFor(lang) ==
  CASE lang = "java" -> javaRules
    [] lang = "python" -> pythonRules
    [] lang = "cpp" -> cppRules
    [] OTHER -> <<>>

\* /if|else|while|for|switch|case/g
BranchTokens == << Lit(<<"i", "f">>), Lit(<<"e", "l", "s", "e">>),
                   Lit(<<"w", "h", "i", "l", "e">>), Lit(<<"f", "o", "r">>),
                   Lit(<<"s", "w", "i", "t", "c", "h">>),
                   Lit(<<"c", "a", "s", "e">>) >>

(***************************************************************************)
(* Math.random.  A draw is the double nearest k / RandBase for k in        *)
(* 0..RandBase-1, whose toString(36) has one digit.  One call of           *)
(* analyzeCode consumes a stream of draws: its i-th call of Math.random    *)
(* returns Random(stream, i).                                              *)
(***************************************************************************)
RandBase == 36

Digits36 == <<"0", "1", "2", "3", "4", "5", "6", "7", "8", "9", "a", "b", "c",
              "d", "e", "f", "g", "h", "i", "j", "k", "l", "m", "n", "o", "p",
              "q", "r", "s", "t", "u", "v", "w", "x", "y", "z">>

Random(stream, i) == (stream.seed + (i - 1) * stream.step) % RandBase

\* 2^p modulo m
RECURSIVE Pow2Mod(_, _)
Pow2Mod(p, m) == IF p = 0 THEN 1 % m ELSE (2 * Pow2Mod(p - 1, m)) % m

\* h doubled until it is RandBase at least: Lead(2 * k) is k * 2^c for the
\* c >= 1 that puts k * 2^c / RandBase in [1, 2), so that the double nearest
\* k / RandBase is M / 2^(52 + c) with a mantissa M of 53 bits.
RECURSIVE Lead(_)
Lead(h) == IF h >= RandBase THEN h ELSE Lead(2 * h)

\* The remainder of k * 2^(52 + c) by RandBase.  The mantissa M is the
\* quotient when the remainder is less than half of RandBase, and the
\* double is then below k / RandBase by Shortfall(k) / (RandBase * 2^(52 + c));
\* otherwise the double is k / RandBase or above it.  (The remainder is
\* never half of RandBase for RandBase = 36.)
Shortfall(k) == (Lead(2 * k) * Pow2Mod(52, RandBase)) % RandBase

\* The greatest power of 2 that is q at most, q >= 1.
RECURSIVE TopBit(_, _)
TopBit(q, t) == IF 2 * t > q THEN t ELSE TopBit(q, 2 * t)

\* The product of a draw that is below k / RandBase with n, when k * n is
\* q * RandBase, is below q by Shortfall(k) * q / (k * 2^(52 + c)).  The
\* multiplication rounds it to the nearest double: to q when it is within
\* half of the gap between q and the double before q (a tie is rounded to
\* q, whose mantissa is even), and to the double before q otherwise.  The
\* gap is t / 2^52 for the greatest power of 2 t below q, and t / 2^53 when
\* q is t.
RoundsTo(k, q, t) ==
  (IF q = t THEN 4 ELSE 2) * Shortfall(k) * q <= Lead(2 * k) * t

\* Math.floor of the product whose exact value would be the integer q.
FloorOfProduct(k, q) ==
  IF 2 * Shortfall(k) >= RandBase \/ Shortfall(k) = 0 THEN q
  ELSE IF RoundsTo(k, q, TopBit(q, 1)) THEN q
  ELSE q - 1

\* Math.floor(Math.random() * n) for the draw nearest k / RandBase: the
\* product is a double.  When k * n is no multiple of RandBase the product
\* is further from every integer than the double arithmetic is from the
\* exact value, and its floor is that of k * n / RandBase.
RandomBelow(k, n) ==
  IF k * n = 0 \/ (k * n) % RandBase # 0 THEN (k * n) \div RandBase
  ELSE FloorOfProduct(k, (k * n) \div RandBase)

\* (k / RandBase).toString(36): "0" for 0, "0.d" otherwise
ToString36(k) == IF k = 0 THEN <<"0">> ELSE <<"0", ".", Digits36[k + 1]>>

\* s.substr(start, length)
Substr(s, start, length) ==
  SubSeq(s, start + 1, Min2(Len(s), start + length))

generateRandomId(k) == Substr(ToString36(k), 2, 9)

(***************************************************************************)
(* analyzeCode                                                             *)
(***************************************************************************)
\* lines.filter(line => line.trim() && !line.trim().startsWith('//')).length
RECURSIVE CountCodeLines(_)
CountCodeLines(lines) ==
  IF lines = <<>> THEN 0
  ELSE (IF Trim(Head(lines)) # <<>> /\ ~StartsWith(Trim(Head(lines)), <<"/", "/">>)
        THEN 1 ELSE 0) + CountCodeLines(Tail(lines))

LinesOfCode(text) == CountCodeLines(Split(text))

\* code.substring(0, match.index).split('\n').length
LineNumber(text, index) == Len(Split(Prefix(text, index)))

\* Column counted from 0 on every line.
ColumnZeroBased(text, index) ==
  IF index # 0 THEN index - LastIndexOfNewline(text, index) - 1 ELSE 0

\* match.index ? match.index - code.lastIndexOf('\n', match.index) : 0
Column(text, index) ==
  IF index # 0 THEN index - LastIndexOfNewline(text, index) ELSE 0

\* RuleMatches with the g flag ignored: the first match only.
RuleMatchesFirstOnly(r, text) ==
  IF Test(r.pattern, text) THEN <<Match(r.pattern, text)>> ELSE <<>>

\* The matches one rule contributes: all of them for a g pattern, the first
\* one, if any, otherwise.
RuleMatches(r, text) ==
  IF r.global THEN MatchAll(r.pattern, text)
  ELSE IF Test(r.pattern, text) THEN <<Match(r.pattern, text)>>
  ELSE <<>>

\* The matches ms of rule r, each with its rule.
WithRule(r, ms) == [i \in 1..Len(ms) |-> [r |-> r, index |-> ms[i].index]]

\* rules.forEach: the (rule, match) pairs in the order the issues are pushed.
RECURSIVE CatalogMatches(_, _, _)
CatalogMatches(rules, k, text) ==
  IF k > Len(rules) THEN <<>>
  ELSE WithRule(rules[k], RuleMatches(rules[k], text))
       \o CatalogMatches(rules, k + 1, text)

\* The issues pushed for the matches cm: the i-th one takes the i-th draw as
\* its id.
IssuesOf(text, stream, cm) ==
  [i \in 1..Len(cm) |->
     [id |-> generateRandomId(Random(stream, i)),
      type |-> cm[i].r.type,
      line |-> LineNumber(text, cm[i].index),
      column |-> Column(text, cm[i].index),
      message |-> cm[i].r.message,
      rule |-> cm[i].r.rule,
      severity |-> cm[i].r.severity]]

CatalogIssues(text, lang, stream) ==
  IssuesOf(text, stream, CatalogMatches(RulesFor(lang), 1, text))

\* additionalIssues with a line drawn from 1..lineCount+1.
additionalIssuesPastEnd(text, stream, n) ==
  LET lineCount == Len(Split(text))
  IN << [id |-> generateRandomId(Random(stream, n + 1)),
         type |-> "suggestion",
         line |-> RandomBelow(Random(stream, n + 2), lineCount + 1) + 1,
         column |-> 5,
         message |-> "Consider adding documentation comments",
         rule |-> "documentation",
         severity |-> "low"],
        [id |-> generateRandomId(Random(stream, n + 3)),
         type |-> "warning",
         line |-> RandomBelow(Random(stream, n + 4), lineCount + 1) + 1,
         column |-> 10,
         message |-> "Variable naming could be more descriptive",
         rule |-> "naming-clarity",
         severity |-> "medium"] >>

\* The two issues added after the catalog; n draws were consumed before them.
additionalIssues(text, stream, n) ==
  LET lineCount == Len(Split(text))
  IN << [id |-> generateRandomId(Random(stream, n + 1)),
         type |-> "suggestion",
         line |-> RandomBelow(Random(stream, n + 2), lineCount) + 1,
         column |-> 5,
         message |-> "Consider adding documentation comments",
         rule |-> "documentation",
         severity |-> "low"],
        [id |-> generateRandomId(Random(stream, n + 3)),
         type |-> "warning",
         line |-> RandomBelow(Random(stream, n + 4), lineCount) + 1,
         column |-> 10,
         message |-> "Variable naming could be more descriptive",
         rule |-> "naming-clarity",
         severity |-> "medium"] >>

\* PushAll with the new issues put first.
PushAllFirst(issues, more) == more \o issues

\* PushAll that appends nothing.
PushNone(issues, more) == issues

\* issues.push(...more)
PushAll(issues, more) == issues \o more

\* issues.filter(i => i.type === t).length
CountType(issues, t) == Cardinality({i \in 1..Len(issues) : issues[i].type = t})

\* CyclomaticComplexity without the floor of 1.
CyclomaticComplexityNoFloor(text, linesOfCode) ==
  (linesOfCode \div 10) + Len(MatchAll(BranchTokens, text))

\* CyclomaticComplexity without the share of the lines of code.
CyclomaticComplexityTokensOnly(text, linesOfCode) ==
  Max2(1, Len(MatchAll(BranchTokens, text)))

CyclomaticComplexity(text, linesOfCode) ==
  Max2(1, (linesOfCode \div 10) + Len(MatchAll(BranchTokens, text)))

\* MaintainabilityIndex over the issues less the two filler issues.
MaintainabilityIndexLessFillers(issueCount, cyclomaticComplexity) ==
  Max2(10, 100 - (issueCount - 2) * 5 - (cyclomaticComplexity \div 2))

MaintainabilityIndex(issueCount, cyclomaticComplexity) ==
  Max2(10, 100 - issueCount * 5 - (cyclomaticComplexity \div 2))

TestCoverage(issueCount) == Max2(0, 100 - issueCount * 3)

\* Score without the clamp to [0, 100].
ScoreUnclamped(issues) ==
  100 - CountType(issues, "error") * 15
      - CountType(issues, "warning") * 8
      - CountType(issues, "suggestion") * 3

\* Score with the penalties of errors and warnings exchanged.
ScoreSwapped(issues) ==
  Max2(0, Min2(100, 100 - CountType(issues, "error") * 8
                        - CountType(issues, "warning") * 15
                        - CountType(issues, "suggestion") * 3))

Score(issues) ==
  Max2(0, Min2(100, 100 - CountType(issues, "error") * 15
                        - CountType(issues, "warning") * 8
                        - CountType(issues, "suggestion") * 3))

SuggestionPool == <<
  "Break down large methods into smaller, more focused functions",
  "Add unit tests to improve code reliability",
  "Use meaningful variable and method names",
  "Consider using design patterns for better code structure",
  "Add error handling and logging where appropriate" >>

\* Suggestions with a length drawn from 2..5.
SuggestionsUpToFive(k) ==
  SubSeq(SuggestionPool, 1, Min2(5, RandomBelow(k, 4) + 2))

\* pool.slice(0, Math.floor(Math.random() * 3) + 2)
Suggestions(k) == SubSeq(SuggestionPool, 1, Min2(5, RandomBelow(k, 3) + 2))

\* The returned object; n draws were consumed before duplicateLines.
Return(stream, n, issues, linesOfCode, cyclomaticComplexity) ==
  [score |-> Score(issues),
   issues |-> issues,
   metrics |->
     [linesOfCode |-> linesOfCode,
      cyclomaticComplexity |-> cyclomaticComplexity,
      maintainabilityIndex |->
        MaintainabilityIndex(Len(issues), cyclomaticComplexity),
      duplicateLines |-> RandomBelow(Random(stream, n + 1), 5),
      testCoverage |-> TestCoverage(Len(issues))],
   suggestions |-> Suggestions(Random(stream, n + 2))]

\* analyzeCode from the catalog issues on.
AfterCatalog(text, stream, linesOfCode, catalog) ==
  Return(stream, Len(catalog) + 4,
         PushAll(catalog, additionalIssues(text, stream, Len(catalog))),
         linesOfCode, CyclomaticComplexity(text, linesOfCode))

analyzeCode(text, lang, stream) ==
  AfterCatalog(text, stream, LinesOfCode(text), CatalogIssues(text, lang, stream))

(***************************************************************************)
(* The inputs of the model.                                                *)
(***************************************************************************)
\* The lines the texts are made of.
LineImports == <<"i", "m", "p", "o", "r", "t", " ", "a", ";", " ", "i", "m", "p", "o", "r", "t", VerticalTab, "b", ";">>

LineClasses == <<" ", "c", "l", "a", "s", "s", " ", "a", " ", "c", "l", "a", "s", "s", " ", "b", " ", "i", "f", "o", "r">>

LineComment == <<NoBreakSpace, "/", "/", "x">>

LineCpp == <<"#", "i", "n", "c", "l", "u", "d", "e", "<", "a", ">", " ", "n", "e", "w", " ", "#", "i", "n", "c", "l", "u", "d", "e", " ", "<", "b", ">", " ", "u", "s", "i", "n", "g", " ", "n", "a", "m", "e", "s", "p", "a", "c", "e", " ", "s", "t", "d", ";">>

LinePython == <<"i", "m", "p", "o", "r", "t", " ", "*", " ", "e", "x", "c", "e", "p", "t", ":", " ", "d", "e", "f", " ", "A">>

LineLoops == <<"p", "u", "b", "l", "i", "c", " ", "s", "t", "a", "t", "i", "c", " ", "v", "o", "i", "d", " ", "m", "a", "i", "n", "(", ")", "{", "}", " ", "f", "o", "r", "(", ")", "{", "f", "o", "r", "(", ")", " ", "e", "l", "s", "e">>

OneImport == <<"i", "m", "p", "o", "r", "t", " ", "a", ";">>

Lines == {<<>>, LineImports, LineClasses, LineComment, LineCpp, LinePython, LineLoops}

\* The most lines a text is made of.
MaxLines == 2

\* The number of import statements of the long text.
MaxImports == 34

\* lines.join('\n')
RECURSIVE Join(_)
Join(ls) ==
  IF Len(ls) = 0 THEN <<>>
  ELSE IF Len(ls) = 1 THEN ls[1]
  ELSE ls[1] \o <<"\n">> \o Join(Tail(ls))

RECURSIVE Repeat(_, _)
Repeat(s, n) == IF n = 0 THEN <<>> ELSE s \o Repeat(s, n - 1)

LongText == Repeat(OneImport, MaxImports)

\* A line of code whose branch tokens overlap: "if" and "for" share the f.
CodeLine == <<"i", "f", "o", "r", "\n">>

\* The number of lines of code of the tall text.
MaxCodeLines == 10

TallText == Repeat(CodeLine, MaxCodeLines)

Texts ==
  {Join(ls) : ls \in UNION {[1..n -> Lines] : n \in 1..MaxLines}}
    \cup {LongText, TallText}

\* "javascript" stands for every language id that is none of the three.
LanguageIds == {"java", "python", "cpp", "javascript"}

\* The streams of draws: RandSeeds first draws spread over 0..RandBase-1, and
\* each next draw MaxStep at most further on.
RandSeeds == 3

MaxStep == 1

RandomStreams ==
  {[seed |-> (k * (RandBase - 1)) \div (RandSeeds - 1), step |-> d] :
     k \in 0..(RandSeeds - 1), d \in 0..MaxStep}

(***************************************************************************)
(* App: the state of the page and its handlers.                            *)
(* result is <<>> for null and <<r>> for the AnalysisResult r; pending     *)
(* holds the calls of analyzeCode that have not returned, each with the    *)
(* code and language its handleAnalyze closed over; analyzed is the input  *)
(* of the call that produced result; exported is the last call of          *)
(* exportToPDF.                                                            *)
(***************************************************************************)
sampleCodes == [
    java |->
      <<"p", "u", "b", "l", "i", "c", " ", "c", "l", "a", "s", "s", " ", "C", "a", "l", "c", "u", "l", "a", "t", "o", "r", " ", "{", "\n">>
      \o <<" ", " ", " ", " ", "p", "u", "b", "l", "i", "c", " ", "s", "t", "a", "t", "i", "c", " ", "v", "o", "i", "d", " ", "m", "a", "i", "n", "(", "S", "t", "r", "i", "n", "g", "[", "]", " ", "a", "r", "g", "s", ")", " ", "{", "\n">>
      \o <<" ", " ", " ", " ", " ", " ", " ", " ", "i", "n", "t", " ", "a", " ", "=", " ", "5", ";", "\n">>
      \o <<" ", " ", " ", " ", " ", " ", " ", " ", "i", "n", "t", " ", "b", " ", "=", " ", "3", ";", "\n">>
      \o <<" ", " ", " ", " ", " ", " ", " ", " ", "S", "y", "s", "t", "e", "m", ".", "o", "u", "t", ".", "p", "r", "i", "n", "t", "l", "n", "(", "\"", "S", "u", "m", ":", " ", "\"", " ", "+", " ", "(", "a", " ", "+", " ", "b", ")", ")", ";", "\n">>
      \o <<" ", " ", " ", " ", " ", " ", " ", " ", "\n">>
      \o <<" ", " ", " ", " ", " ", " ", " ", " ", "/", "/", " ", "N", "e", "s", "t", "e", "d", " ", "l", "o", "o", "p", " ", "e", "x", "a", "m", "p", "l", "e", "\n">>
      \o <<" ", " ", " ", " ", " ", " ", " ", " ", "f", "o", "r", " ", "(", "i", "n", "t", " ", "i", " ", "=", " ", "0", ";", " ", "i", " ", "<", " ", "5", ";", " ", "i", "+", "+", ")", " ", "{", "\n">>
      \o <<" ", " ", " ", " ", " ", " ", " ", " ", " ", " ", " ", " ", "f", "o", "r", " ", "(", "i", "n", "t", " ", "j", " ", "=", " ", "0", ";", " ", "j", " ", "<", " ", "3", ";", " ", "j", "+", "+", ")", " ", "{", "\n">>
      \o <<" ", " ", " ", " ", " ", " ", " ", " ", " ", " ", " ", " ", " ", " ", " ", " ", "S", "y", "s", "t", "e", "m", ".", "o", "u", "t", ".", "p", "r", "i", "n", "t", "l", "n", "(", "i", " ", "+", " ", "\"", ",", " ", "\"", " ", "+", " ", "j", ")", ";", "\n">>
      \o <<" ", " ", " ", " ", " ", " ", " ", " ", " ", " ", " ", " ", "}", "\n">>
      \o <<" ", " ", " ", " ", " ", " ", " ", " ", "}", "\n">>
      \o <<" ", " ", " ", " ", "}", "\n">>
      \o <<"}">>,
    python |->
      <<"i", "m", "p", "o", "r", "t", " ", "*", "\n">>
      \o <<"f", "r", "o", "m", " ", "m", "a", "t", "h", " ", "i", "m", "p", "o", "r", "t", " ", "s", "q", "r", "t", "\n">>
      \o <<"\n">>
      \o <<"d", "e", "f", " ", "c", "a", "l", "c", "u", "l", "a", "t", "e", "A", "v", "e", "r", "a", "g", "e", "(", "n", "u", "m", "b", "e", "r", "s", ")", ":", "\n">>
      \o <<" ", " ", " ", " ", "t", "r", "y", ":", "\n">>
      \o <<" ", " ", " ", " ", " ", " ", " ", " ", "t", "o", "t", "a", "l", " ", "=", " ", "s", "u", "m", "(", "n", "u", "m", "b", "e", "r", "s", ")", "\n">>
      \o <<" ", " ", " ", " ", " ", " ", " ", " ", "r", "e", "t", "u", "r", "n", " ", "t", "o", "t", "a", "l", " ", "/", " ", "l", "e", "n", "(", "n", "u", "m", "b", "e", "r", "s", ")", "\n">>
      \o <<" ", " ", " ", " ", "e", "x", "c", "e", "p", "t", ":", "\n">>
      \o <<" ", " ", " ", " ", " ", " ", " ", " ", "r", "e", "t", "u", "r", "n", " ", "0", "\n">>
      \o <<"\n">>
      \o <<"d", "e", "f", " ", "P", "r", "o", "c", "e", "s", "s", "D", "a", "t", "a", "(", "d", "a", "t", "a", ")", ":", "\n">>
      \o <<" ", " ", " ", " ", "r", "e", "s", "u", "l", "t", " ", "=", " ", "[", "]", "\n">>
      \o <<" ", " ", " ", " ", "f", "o", "r", " ", "i", "t", "e", "m", " ", "i", "n", " ", "d", "a", "t", "a", ":", "\n">>
      \o <<" ", " ", " ", " ", " ", " ", " ", " ", "i", "f", " ", "i", "t", "e", "m", " ", ">", " ", "0", ":", "\n">>
      \o <<" ", " ", " ", " ", " ", " ", " ", " ", " ", " ", " ", " ", "r", "e", "s", "u", "l", "t", ".", "a", "p", "p", "e", "n", "d", "(", "s", "q", "r", "t", "(", "i", "t", "e", "m", ")", ")", "\n">>
      \o <<" ", " ", " ", " ", "r", "e", "t", "u", "r", "n", " ", "r", "e", "s", "u", "l", "t">>,
    cpp |->
      <<"#", "i", "n", "c", "l", "u", "d", "e", " ", "<", "i", "o", "s", "t", "r", "e", "a", "m", ">", "\n">>
      \o <<"#", "i", "n", "c", "l", "u", "d", "e", " ", "<", "v", "e", "c", "t", "o", "r", ">", "\n">>
      \o <<"#", "i", "n", "c", "l", "u", "d", "e", " ", "<", "m", "e", "m", "o", "r", "y", ">", "\n">>
      \o <<"\n">>
      \o <<"u", "s", "i", "n", "g", " ", "n", "a", "m", "e", "s", "p", "a", "c", "e", " ", "s", "t", "d", ";", "\n">>
      \o <<"\n">>
      \o <<"c", "l", "a", "s", "s", " ", "D", "a", "t", "a", "P", "r", "o", "c", "e", "s", "s", "o", "r", " ", "{", "\n">>
      \o <<"p", "u", "b", "l", "i", "c", ":", "\n">>
      \o <<" ", " ", " ", " ", "v", "o", "i", "d", " ", "p", "r", "o", "c", "e", "s", "s", "D", "a", "t", "a", "(", ")", " ", "{", "\n">>
      \o <<" ", " ", " ", " ", " ", " ", " ", " ", "i", "n", "t", "*", " ", "d", "a", "t", "a", " ", "=", " ", "n", "e", "w", " ", "i", "n", "t", "[", "1", "0", "0", "]", ";", "\n">>
      \o <<" ", " ", " ", " ", " ", " ", " ", " ", "\n">>
      \o <<" ", " ", " ", " ", " ", " ", " ", " ", "f", "o", "r", " ", "(", "i", "n", "t", " ", "i", " ", "=", " ", "0", ";", " ", "i", " ", "<", " ", "1", "0", "0", ";", " ", "i", "+", "+", ")", " ", "{", "\n">>
      \o <<" ", " ", " ", " ", " ", " ", " ", " ", " ", " ", " ", " ", "d", "a", "t", "a", "[", "i", "]", " ", "=", " ", "i", " ", "*", " ", "2", ";", "\n">>
      \o <<" ", " ", " ", " ", " ", " ", " ", " ", "}", "\n">>
      \o <<" ", " ", " ", " ", " ", " ", " ", " ", "\n">>
      \o <<" ", " ", " ", " ", " ", " ", " ", " ", "/", "/", " ", "M", "e", "m", "o", "r", "y", " ", "l", "e", "a", "k", " ", "-", " ", "f", "o", "r", "g", "o", "t", " ", "t", "o", " ", "d", "e", "l", "e", "t", "e", "[", "]", "\n">>
      \o <<" ", " ", " ", " ", " ", " ", " ", " ", "c", "o", "u", "t", " ", "<", "<", " ", "\"", "P", "r", "o", "c", "e", "s", "s", "i", "n", "g", " ", "c", "o", "m", "p", "l", "e", "t", "e", "\"", " ", "<", "<", " ", "e", "n", "d", "l", ";", "\n">>
      \o <<" ", " ", " ", " ", "}", "\n">>
      \o <<"}", ";">> ]

Blank == <<" ", VerticalTab>>

ShortClass == <<"c", "l", "a", "s", "s", " ", "a">>

\* What the user types, pastes or uploads.
EditorTexts == {<<>>, Blank, ShortClass}

\* The language buttons of CodeEditor.
languages == {"java", "python", "cpp"}

\* The extensions of the files the upload accepts, and one that is none.
Extensions == {"java", "py", "cpp", "cc", "cxx", "txt"}

AppStreams == {s \in RandomStreams : s.seed = 0}

\* Every text the editor can hold.
AppCodes == EditorTexts \cup {sampleCodes[l] : l \in languages}

\* analyzeCode on every input the page can give it, evaluated once.
AppResults ==
  [c \in AppCodes, l \in languages, stream \in AppStreams |->
     analyzeCode(c, l, stream)]

\* getScoreColor of AnalysisResults: the class of the score shown.
getScoreColor(score) ==
  IF score >= 90 THEN "text-green-400"
  ELSE IF score >= 70 THEN "text-yellow-400"
  ELSE "text-red-400"

\* scoreColor of exportToPDF: the fill of the score bar of the report.
scoreColor(score) ==
  IF score >= 90 THEN <<34, 197, 94>>
  ELSE IF score >= 70 THEN <<251, 191, 36>>
  ELSE <<239, 68, 68>>

Init ==
  /\ code = <<>>
  /\ language = "java"
  /\ result = <<>>
  /\ isAnalyzing = FALSE
  /\ pending = <<>>
  /\ analyzed = <<>>
  /\ exported = <<>>

\* onCodeChange={setCode}: the textarea and the Clear button
onCodeChange(text) ==
  /\ code' = text
  /\ UNCHANGED <<language, result, isAnalyzing, pending, analyzed, exported>>

\* onLanguageChange={setLanguage}: a language button
onLanguageChange(lang) ==
  /\ language' = lang
  /\ UNCHANGED <<code, result, isAnalyzing, pending, analyzed, exported>>

\* reader.onload of handleFileUpload
handleFileUpload(content, extension) ==
  /\ code' = content
  /\ language' = CASE extension = "java" -> "java"
                   [] extension = "py" -> "python"
                   [] extension \in {"cpp", "cc", "cxx"} -> "cpp"
                   [] OTHER -> language
  /\ UNCHANGED <<result, isAnalyzing, pending, analyzed, exported>>

handleLoadSample ==
  /\ code' = sampleCodes[language]
  /\ UNCHANGED <<language, result, isAnalyzing, pending, analyzed, exported>>

\* The Analyze button without isAnalyzing in its disabled attribute.
AnalyzeDisabledBlankOnly == Trim(code) = <<>>

\* The Analyze button is disabled={!code.trim() || isAnalyzing}.
AnalyzeDisabled == Trim(code) = <<>> \/ isAnalyzing

\* handleAnalyze up to its await: the click on the Analyze button.
handleAnalyze ==
  /\ ~AnalyzeDisabled
  /\ IF Trim(code) = <<>>
     THEN UNCHANGED <<isAnalyzing, pending>>
     ELSE /\ isAnalyzing' = TRUE
          /\ pending' = Append(pending, [code |-> code, language |-> language])
  /\ UNCHANGED <<code, language, result, analyzed, exported>>

\* AnalyzeReturn without the finally block: isAnalyzing is left set.
AnalyzeReturnNoFinally ==
  /\ pending # <<>>
  /\ \E stream \in AppStreams :
       result' = <<AppResults[Head(pending).code, Head(pending).language, stream]>>
  /\ analyzed' = <<Head(pending)>>
  /\ pending' = Tail(pending)
  /\ UNCHANGED <<code, language, isAnalyzing, exported>>

\* The timer of analyzeCode fires: the call returns its result and
\* handleAnalyze resumes: setResult, then finally setIsAnalyzing(false).
AnalyzeReturn ==
  /\ pending # <<>>
  /\ \E stream \in AppStreams :
       result' = <<AppResults[Head(pending).code, Head(pending).language, stream]>>
  /\ analyzed' = <<Head(pending)>>
  /\ isAnalyzing' = FALSE
  /\ pending' = Tail(pending)
  /\ UNCHANGED <<code, language, exported>>

\* handleExportPDF with a failed export dropping the result shown.
handleExportPDFLosingResult ==
  /\ result # <<>>
  /\ \E failed \in BOOLEAN :
       /\ exported' = <<[language |-> language, failed |-> failed]>>
       /\ result' = IF failed THEN <<>> ELSE result
  /\ UNCHANGED <<code, language, isAnalyzing, pending, analyzed>>

\* The Export PDF button of Header; exportToPDF returns or throws.
handleExportPDF ==
  /\ result # <<>>
  /\ \E failed \in BOOLEAN :
       exported' = <<[language |-> language, failed |-> failed]>>
  /\ UNCHANGED <<code, language, result, isAnalyzing, pending, analyzed>>

Next ==
  \/ \E text \in EditorTexts : onCodeChange(text)
  \/ \E lang \in languages : onLanguageChange(lang)
  \/ \E content \in EditorTexts, extension \in Extensions :
       handleFileUpload(content, extension)
  \/ handleLoadSample
  \/ handleAnalyze
  \/ AnalyzeReturn
  \/ handleExportPDF

Spec == Init /\ [][Next]_vars

\* The timer of a call of analyzeCode that has started does fire.
FairSpec == Spec /\ WF_vars(AnalyzeReturn)

(***************************************************************************)
(* analyzeCode alone, applied to every text, language id and stream of     *)
(* draws of the model.                                                     *)
(***************************************************************************)
AnalyzerInit ==
  /\ code \in Texts
  /\ language \in LanguageIds
  /\ result = <<>>
  /\ isAnalyzing = FALSE
  /\ pending = <<>>
  /\ analyzed = <<>>
  /\ exported = <<>>

Analyze ==
  /\ result = <<>>
  /\ \E stream \in RandomStreams :
       result' = <<analyzeCode(code, language, stream)>>
  /\ analyzed' = <<[code |-> code, language |-> language]>>
  /\ UNCHANGED <<code, language, isAnalyzing, pending, exported>>

AnalyzerNext == Analyze

AnalyzerSpec == AnalyzerInit /\ [][AnalyzerNext]_vars

(***************************************************************************)
(* Properties of analyzeCode, checked under AnalyzerSpec: once result is   *)
(* set it is the result of analyzeCode on (code, language).                *)
(***************************************************************************)
Res == result[1]

Analyzed == result # <<>>

\* The number of '\n'-separated segments of a text, counted from its line
\* breaks.
LineCount(text) == 1 + Cardinality({i \in 1..Len(text) : text[i] = "\n"})

\* The number of issues of a kind, and of a rule.
KindCount(issues, kind) == Len(SelectSeq(issues, LAMBDA i : i.type = kind))

RuleCount(issues, ruleId) == Len(SelectSeq(issues, LAMBDA i : i.rule = ruleId))

Clamp(x, lo, hi) == IF x < lo THEN lo ELSE IF x > hi THEN hi ELSE x

\* The penalty sum of the issues, before any clamp.
RawScore(issues) ==
  100 - 15 * KindCount(issues, "error") - 8 * KindCount(issues, "warning")
      - 3 * KindCount(issues, "suggestion")

\* C1: for every source text and language id, the result has score in
\* [0, 100] and metrics.maintainabilityIndex >= 10.
C1_ScoreAndMaintainabilityInRange ==
  Analyzed =>
    /\ Res.score \in 0..100
    /\ Res.metrics.maintainabilityIndex >= 10

\* A result whose penalties exceed 100 and whose issue count would take the
\* maintainability index below 10: both floors act.
C1_Witness ==
  /\ Analyzed
  /\ RawScore(Res.issues) < 0
  /\ 100 - 5 * Len(Res.issues) < 10
  /\ Res.score = 0
  /\ Res.metrics.maintainabilityIndex = 10

\* C2: score = clamp(100 - 15*E - 8*W - 3*S, 0, 100), E, W and S counted over
\* all returned issues, the two filler issues included.
C2_ScoreFormula ==
  Analyzed => Res.score = Clamp(RawScore(Res.issues), 0, 100)

\* A result with issues of all three kinds.
C2_Witness ==
  /\ Analyzed
  /\ KindCount(Res.issues, "error") >= 1
  /\ KindCount(Res.issues, "warning") >= 2
  /\ KindCount(Res.issues, "suggestion") >= 1
  /\ Res.score = RawScore(Res.issues)

(***************************************************************************)
(* The occurrences of a pattern in a text, from the language of the        *)
(* pattern: (s, e) is an occurrence when the characters at offsets s..e-1  *)
(* spell a word of it.                                                     *)
(***************************************************************************)
\* The offsets where item can end when it starts at one of the offsets P.
AfterItem(item, text, P) ==
  UNION {IF item.many
         THEN {q \in (p + item.min)..Len(text) :
                 \A j \in (p + 1)..q : InClass(item, text[j])}
         ELSE IF p < Len(text) /\ InClass(item, text[p + 1]) THEN {p + 1} ELSE {}
         : p \in P}

RECURSIVE AfterItems(_, _, _, _)
AfterItems(alt, k, text, P) ==
  IF k > Len(alt) \/ P = {} THEN P
  ELSE AfterItems(alt, k + 1, text, AfterItem(alt[k], text, P))

Occurrences(pattern, text) ==
  UNION {{<<s, e>> : e \in AfterItems(pattern[a], 1, text, {s})} :
           s \in 0..Len(text), a \in 1..Len(pattern)}

\* The greatest number of pairwise non-overlapping occurrences: the one that
\* ends first is taken, then the one that ends first among those starting
\* at or after its end, and so on.
RECURSIVE MostDisjoint(_, _)
MostDisjoint(occ, from) ==
  LET later == {o \in occ : o[1] >= from /\ o[2] > o[1]}
  IN IF later = {} THEN 0
     ELSE 1 + MostDisjoint(occ, SetMin({o[2] : o \in later}))

NonOverlapping(pattern, text) == MostDisjoint(Occurrences(pattern, text), 0)

\* C3: a find-all rule yields one issue per non-overlapping occurrence of
\* its pattern, a first-match rule yields min(1, N) issues, and a rule whose
\* pattern does not occur yields none.
C3_IssuesPerRule ==
  Analyzed =>
    \A k \in 1..Len(RulesFor(language)) :
      LET r == RulesFor(language)[k]
          N == NonOverlapping(r.pattern, code)
      IN RuleCount(Res.issues, r.rule) = IF r.global THEN N ELSE Min2(1, N)

\* Java over a text with two imports and two lower-case classes: two
\* unused-imports issues, one naming-convention issue, and no issue of the
\* rules that do not occur.
C3_Witness ==
  /\ Analyzed
  /\ language = "java"
  /\ NonOverlapping(javaRules[3].pattern, code) >= 2
  /\ RuleCount(Res.issues, "unused-imports") >= 2
  /\ NonOverlapping(javaRules[1].pattern, code) >= 2
  /\ RuleCount(Res.issues, "naming-convention") = 1
  /\ NonOverlapping(javaRules[4].pattern, code) = 0
  /\ RuleCount(Res.issues, "performance") = 0

\* The match offsets behind the catalog-derived issues, in issue order.
MatchOffsets == 
  LET cm == CatalogMatches(RulesFor(language), 1, code)
  IN [i \in 1..Len(cm) |-> cm[i].index]

\* The number of line breaks before offset index.
BreaksBefore(text, index) ==
  Cardinality({q \in 0..(index - 1) : q < Len(text) /\ text[q + 1] = "\n"})

\* C4: every issue has line in [1, lineCount]; a catalog-derived issue has
\* line = 1 + the number of line breaks before its match, and each of the
\* two filler issues has a line in 1..lineCount.
C4_LinesInRange ==
  Analyzed =>
    LET n == Len(Res.issues)
        offsets == MatchOffsets
        lineCount == LineCount(code)
    IN /\ \A i \in 1..n : Res.issues[i].line \in 1..lineCount
       /\ Len(offsets) = n - 2
       /\ \A i \in 1..(n - 2) :
            Res.issues[i].line = 1 + BreaksBefore(code, offsets[i])

\* A text of several lines with a catalog-derived issue past the first line
\* and a filler issue on the last line.
C4_Witness ==
  /\ Analyzed
  /\ LineCount(code) >= 2
  /\ Len(Res.issues) >= 3
  /\ \E i \in 1..(Len(Res.issues) - 2) : Res.issues[i].line >= 2
  /\ Res.issues[Len(Res.issues)].line = LineCount(code)

\* The offsets before index that hold a line break.
BreakOffsetsBefore(text, index) ==
  {q \in 0..(index - 1) : q < Len(text) /\ text[q + 1] = "\n"}

\* C5 as stated: column = match offset - the offset of the nearest line break
\* before the match, and 0 whenever no line break precedes the match.
C5_ColumnZeroOnFirstLine ==
  Analyzed =>
    LET offsets == MatchOffsets
    IN \A i \in 1..Len(offsets) :
         LET before == BreakOffsetsBefore(code, offsets[i])
         IN Res.issues[i].column =
              IF before = {} THEN 0 ELSE offsets[i] - SetMax(before)

\* C5 as the code has it: column = match offset - the offset of the nearest
\* line break before the match; when no line break precedes the match,
\* column is 0 for a match at offset 0 and offset + 1 for a match further
\* along the first line.
C5_Column ==
  Analyzed =>
    LET offsets == MatchOffsets
    IN \A i \in 1..Len(offsets) :
         LET before == BreakOffsetsBefore(code, offsets[i])
         IN Res.issues[i].column =
              IF before # {} THEN offsets[i] - SetMax(before)
              ELSE IF offsets[i] = 0 THEN 0
              ELSE offsets[i] + 1

\* Matches at offset 0, further along the first line, and on a later line.
C5_Witness ==
  /\ Analyzed
  /\ \E i, j, k \in 1..Len(MatchOffsets) :
       /\ MatchOffsets[i] = 0
       /\ MatchOffsets[j] > 0 /\ BreakOffsetsBefore(code, MatchOffsets[j]) = {}
       /\ Res.issues[j].column = MatchOffsets[j] + 1
       /\ BreakOffsetsBefore(code, MatchOffsets[k]) # {}

\* The place of a rule id in the catalog of the language; 0 for none.
RuleIndex(lang, ruleId) ==
  LET ks == {k \in 1..Len(RulesFor(lang)) : RulesFor(lang)[k].rule = ruleId}
  IN IF ks = {} THEN 0 ELSE SetMin(ks)

\* C6: the issues are those of the rules in catalog order, those of one
\* find-all rule in increasing match position, and then exactly the two
\* filler issues: the documentation suggestion, then the naming-clarity
\* warning.
C6_IssueOrder ==
  Analyzed =>
    LET is == Res.issues
        n == Len(is)
    IN /\ n >= 2
       /\ is[n - 1].rule = "documentation" /\ is[n - 1].type = "suggestion"
       /\ is[n].rule = "naming-clarity" /\ is[n].type = "warning"
       /\ \A i \in 1..(n - 2) : RuleIndex(language, is[i].rule) >= 1
       /\ \A i \in 1..(n - 3) :
            \/ RuleIndex(language, is[i].rule) < RuleIndex(language, is[i + 1].rule)
            \/ /\ is[i].rule = is[i + 1].rule
               /\ RulesFor(language)[RuleIndex(language, is[i].rule)].global
               /\ \/ is[i].line < is[i + 1].line
                  \/ is[i].line = is[i + 1].line /\ is[i].column < is[i + 1].column

\* Issues of two rules of the catalog, two of them of one find-all rule.
C6_Witness ==
  /\ Analyzed
  /\ Len(Res.issues) >= 5
  /\ \E i \in 1..(Len(Res.issues) - 3) :
       /\ Res.issues[i].rule = Res.issues[i + 1].rule
       /\ \E j \in 1..(Len(Res.issues) - 2) : Res.issues[j].rule # Res.issues[i].rule

\* C7: for a language id that is none of java, python, cpp no rule is
\* applied: the issues are exactly the two filler issues.
C7_UnrecognizedLanguage ==
  Analyzed /\ language \notin {"java", "python", "cpp"} =>
    /\ Len(Res.issues) = 2
    /\ Res.issues[1].rule = "documentation"
    /\ Res.issues[2].rule = "naming-clarity"

\* An unrecognized language id analysed over a text that holds patterns of
\* the catalog.
C7_Witness ==
  /\ Analyzed
  /\ language \notin {"java", "python", "cpp"}
  /\ NonOverlapping(javaRules[3].pattern, code) >= 1
  /\ NonOverlapping(pythonRules[3].pattern, code) >= 1

\* C8: for the empty text, linesOfCode = 0, cyclomaticComplexity = 1 and no
\* issue comes from the catalog.
C8_EmptyText ==
  Analyzed /\ code = <<>> =>
    /\ Res.metrics.linesOfCode = 0
    /\ Res.metrics.cyclomaticComplexity = 1
    /\ Len(Res.issues) = 2
    /\ \A i \in 1..Len(Res.issues) : RuleIndex(language, Res.issues[i].rule) = 0

\* The empty text analysed as Java.
C8_Witness == Analyzed /\ code = <<>> /\ language = "java"

\* C9: the issues of one result have pairwise distinct ids.
C9_DistinctIds ==
  Analyzed =>
    \A i, j \in 1..Len(Res.issues) :
      i # j => Res.issues[i].id # Res.issues[j].id

(***************************************************************************)
(* Properties of the page, checked under FairSpec.                         *)
(***************************************************************************)
\* C10: every analysis that is started completes: once isAnalyzing is set,
\* the call returns, result is set and isAnalyzing is reset.
C10_AnalysisCompletes ==
  isAnalyzing ~> (~isAnalyzing /\ pending = <<>> /\ result # <<>>)

\* An analysis in flight: isAnalyzing is set and the call has not returned.
C10_Witness ==
  /\ isAnalyzing
  /\ pending = <<[code |-> code, language |-> language]>>
  /\ result = <<>>

\* C11: at most one call of analyzeCode is outstanding, and one is
\* outstanding exactly while isAnalyzing is set; the Analyze button cannot
\* act while isAnalyzing is set or the code is blank, so that a call starts
\* only when none is outstanding.
C11_OneRequestOutstanding ==
  /\ Len(pending) <= 1
  /\ isAnalyzing <=> pending # <<>>
  /\ (isAnalyzing \/ Trim(code) = <<>>) => ~ENABLED handleAnalyze

\* A second analysis in flight: the editor holds code, a result of an earlier
\* call is shown, and the one outstanding call keeps the button disabled.
C11_Witness ==
  /\ isAnalyzing
  /\ Len(pending) = 1
  /\ Trim(code) # <<>>
  /\ result # <<>>

\* The last export failed.
ExportFailed == exported # <<>> /\ exported[1].failed

\* The results analyzeCode can return to the call at the head of pending.
ResultsOfHead ==
  {AppResults[Head(pending).code, Head(pending).language, stream] :
     stream \in AppStreams}

\* C12: an export, failed or not, changes none of code, language, result
\* and isAnalyzing, nor the outstanding call; after a failed export the
\* Analyze button acts as ever (it is enabled whenever the code is not blank
\* and no call is outstanding), and an analysis that is outstanding completes
\* with the result of its own code and language.
C12_ExportLeavesStateAlone ==
  /\ [][exported' # exported =>
          UNCHANGED <<code, language, result, isAnalyzing, pending, analyzed>>]_vars
  /\ [](ExportFailed /\ ~isAnalyzing /\ Trim(code) # <<>> => ENABLED handleAnalyze)
  /\ [][ExportFailed /\ pending # <<>> /\ pending' # pending =>
          /\ result' # <<>> /\ result'[1] \in ResultsOfHead
          /\ analyzed' = <<Head(pending)>>
          /\ ~isAnalyzing']_vars
  /\ (ExportFailed /\ isAnalyzing) ~> (~isAnalyzing /\ pending = <<>> /\ analyzed # <<>>)

\* A failed export of a result of Java code, and an analysis of other code
\* in another language outstanding after it.
C12_Witness ==
  /\ ExportFailed
  /\ isAnalyzing
  /\ pending # <<>>
  /\ analyzed # <<>>
  /\ Head(pending).language # analyzed[1].language
  /\ Head(pending).code # analyzed[1].code

(***************************************************************************)
(* Further properties of analyzeCode, checked under AnalyzerSpec.          *)
(***************************************************************************)
\* C13: maintainabilityIndex = max(10, 100 - 5*issueCount -
\* floor(cyclomaticComplexity/2)) and testCoverage = max(0, 100 -
\* 3*issueCount), issueCount being the number of returned issues, the two
\* filler issues included; testCoverage lies in [0, 100].
C13_MaintainabilityAndCoverage ==
  Analyzed =>
    LET issueCount == Len(Res.issues)
        half == CHOOSE h \in 0..Res.metrics.cyclomaticComplexity :
                  Res.metrics.cyclomaticComplexity \in {2 * h, 2 * h + 1}
        index == 100 - 5 * issueCount - half
        coverage == 100 - 3 * issueCount
    IN /\ Res.metrics.maintainabilityIndex = IF index < 10 THEN 10 ELSE index
       /\ Res.metrics.testCoverage = IF coverage < 0 THEN 0 ELSE coverage
       /\ Res.metrics.testCoverage \in 0..100

\* So many issues that 100 - 3*issueCount is negative: both floors act.
C13_Witness ==
  /\ Analyzed
  /\ 100 - 3 * Len(Res.issues) < 0
  /\ Res.metrics.testCoverage = 0
  /\ Res.metrics.maintainabilityIndex = 10

\* The number of occurrences of the branch tokens in a text, each offset
\* where a token starts counted once, overlapping occurrences included.
EveryOccurrence(text) == Cardinality(Occurrences(BranchTokens, text))

\* C14 as stated: cyclomaticComplexity = max(1, floor(linesOfCode/10) + T),
\* T counting every occurrence of the tokens if, else, while, for, switch,
\* case in the text, occurrences that overlap another one included.
C14_OverlappingCounted ==
  Analyzed =>
    Res.metrics.cyclomaticComplexity =
      Max2(1, (Res.metrics.linesOfCode \div 10) + EveryOccurrence(code))

\* C14 as the code has it: cyclomaticComplexity = max(1,
\* floor(linesOfCode/10) + T), T counting the occurrences of the tokens as
\* case-sensitive substrings that a left-to-right scan finds, which resumes
\* after each occurrence it takes: an occurrence that overlaps one already
\* taken is not counted ("ifor" counts 1).
C14_Cyclomatic ==
  Analyzed =>
    Res.metrics.cyclomaticComplexity =
      Max2(1, (Res.metrics.linesOfCode \div 10) + NonOverlapping(BranchTokens, code))

\* Ten lines of code or more, with overlapping tokens: the lines of code
\* add to the count, and the tokens that overlap a counted one do not.
C14_Witness ==
  /\ Analyzed
  /\ Res.metrics.linesOfCode >= 10
  /\ NonOverlapping(BranchTokens, code) >= 2
  /\ EveryOccurrence(code) > NonOverlapping(BranchTokens, code)
  /\ Res.metrics.cyclomaticComplexity =
       (Res.metrics.linesOfCode \div 10) + NonOverlapping(BranchTokens, code)

\* s is the first n strings of the pool, in the order of the pool.
IsPoolPrefix(s, n) ==
  /\ Len(s) = n
  /\ \A i \in 1..n : s[i] = SuggestionPool[i]

\* C15: the pool has 5 strings; for every draw the suggestions are the first
\* 2, 3 or 4 strings of the pool in pool order, and so are the suggestions
\* of every result: never fewer than 2, never all 5.
C15_SuggestionsPrefix ==
  /\ Len(SuggestionPool) = 5
  /\ \A k \in 0..(RandBase - 1) :
       \E n \in 2..4 : IsPoolPrefix(Suggestions(k), n)
  /\ Analyzed => \E n \in 2..4 : IsPoolPrefix(Res.suggestions, n)

\* A result with the longest suggestions there are: the first 4 of the pool.
C15_Witness ==
  /\ Analyzed
  /\ IsPoolPrefix(Res.suggestions, 4)
  /\ Res.suggestions # SuggestionPool

\* C17: every result has at least 2 issues, a warning and a suggestion among
\* them, and a score of 89 at most: neither the page nor the report shows a
\* score in green.
C17_NeverGreen ==
  Analyzed =>
    /\ Len(Res.issues) >= 2
    /\ KindCount(Res.issues, "warning") >= 1
    /\ KindCount(Res.issues, "suggestion") >= 1
    /\ Res.score <= 89
    /\ getScoreColor(Res.score) # "text-green-400"
    /\ scoreColor(Res.score) # <<34, 197, 94>>

\* The best result there is: the two filler issues only, and a score of 89,
\* shown in yellow.
C17_Witness ==
  /\ Analyzed
  /\ Len(Res.issues) = 2
  /\ Res.score = 89
  /\ getScoreColor(Res.score) = "text-yellow-400"

(***************************************************************************)
(* Further properties of the page, checked under FairSpec.                 *)
(***************************************************************************)
\* C16: every export passes to exportToPDF the language id that the result
\* it exports was analysed with.
C16_ExportedLanguage ==
  [][exported' # exported => exported'[1].language = analyzed[1].language]_vars

====
